---- MODULE Spec2Model ----
(***************************************************************************)
(* Hopfield network (src/hopfield/hopfield.py): Hebbian learning as a      *)
(* running average of outer products, the store of learnt patterns and the *)
(* overlap of the lattice with a pattern.                                  *)
(*                                                                         *)
(* Arrays are modelled as NumPy holds them: a shape and the elements.  A   *)
(* pattern is [shape, data] with data a function from index tuples to      *)
(* BOOLEAN; flatten() walks the indices in row-major order.  Floats are    *)
(* modelled as exact rationals <<num, den>> in lowest terms, den > 0, so   *)
(* equalities below are equalities of real numbers (IEEE rounding is not   *)
(* modelled).                                                              *)
(***************************************************************************)
EXTENDS Integers, Sequences, FiniteSets, TLC

VARIABLES
    alive,       \* TRUE once __init__ has returned an object
    shape,       \* self.shape: the tuple computed at hopfield.py:40-43
    nspins,      \* self.nspins = nnodes = np.prod(shape)
    adjmatrix,   \* self.network.adjmatrix: nspins x nspins matrix of rationals
    neighbours,  \* neighbour lists the lattice derives from adjmatrix
    patterns,    \* self.patterns
    spins,       \* self.spins: the lattice's vector of -1/+1
    rng,         \* position of the lattice's random-number stream
    last,        \* the last call: [op, arg, outcome, value]
    learned,     \* history: arguments of the learn calls that returned, in order
    pc,          \* per thread: position inside learn_pattern_Hebb (SpecConc)
    loc,         \* per thread: locals of learn_pattern_Hebb (SpecConc)
    nwrites,     \* history: number of writes of adjmatrix by learn calls
    torn         \* history: some call has read an inconsistent object (SpecConc)

vars == <<alive, shape, nspins, adjmatrix, neighbours, patterns, spins, rng,
          last, learned, pc, loc, nwrites, torn>>

-----------------------------------------------------------------------------
(* Bounds of the model *)

\* learn_pattern_Hebb is called while fewer than MaxPatterns are stored
MaxPatterns == 2
\* the random-number stream is followed for MaxDraws draws
MaxDraws == 1

\* shapes of the networks that Init constructs
NetShapes == { <<2>>, <<1, 2>> }
\* shapes of the arrays handed to learn_pattern_Hebb and pattern_overlap
PatShapes == { <<1>>, <<2>>, <<1, 2>>, <<3>> }
\* arguments handed to the constructor: tuples, and bare integers
TupleArgs == { <<0>>, <<-2>>, <<-1, -2>>, <<2, 0>>, <<2>>, <<1, 2>> }
IntArgs == { 0, 2 }
Threads == { 1, 2 }

-----------------------------------------------------------------------------
(* Rationals *)

RECURSIVE GCD(_, _)
GCD(a, b) == IF b = 0 THEN a ELSE GCD(b, a % b)

Abs(x) == IF x < 0 THEN -x ELSE x

\* n/d in lowest terms with a positive denominator (d # 0)
Frac(n, d) ==
    LET g == GCD(Abs(n), Abs(d))
        s == IF d < 0 THEN -1 ELSE 1
    IN  << (s * n) \div g, (s * d) \div g >>

RatAdd(p, q) == Frac(p[1] * q[2] + q[1] * p[2], p[2] * q[2])
RatScale(p, k) == Frac(p[1] * k, p[2])
RatDiv(p, k) == Frac(p[1], p[2] * k)

-----------------------------------------------------------------------------
(* Arrays *)

RECURSIVE Prod(_)
Prod(s) == IF s = <<>> THEN 1 ELSE Head(s) * Prod(Tail(s))

\* the index tuples of an array of shape s (rank 1 or 2)
Indices(s) ==
    CASE Len(s) = 1 -> { <<i>> : i \in 1..s[1] }
      [] Len(s) = 2 -> { <<i, j>> : i \in 1..s[1], j \in 1..s[2] }

\* the index tuple of the k-th element (k = 1..size) in row-major order
Unravel(k, s) ==
    CASE Len(s) = 1 -> <<k>>
      [] Len(s) = 2 -> << ((k - 1) \div s[2]) + 1, ((k - 1) % s[2]) + 1 >>

BoolArrays(s) == { [shape |-> s, data |-> d] : d \in [Indices(s) -> BOOLEAN] }

Pool == UNION { BoolArrays(s) : s \in PatShapes }

Size(p) == Cardinality(DOMAIN p.data)

\* ndarray.flatten(): the elements as a 1-D array, row-major
Flatten(p) == [k \in 1..Size(p) |-> p.data[Unravel(k, p.shape)]]

\* 2*pattern_flat.astype(bool) - 1
Bipolar(flat) == [k \in 1..Len(flat) |-> IF flat[k] THEN 1 ELSE -1]

\* np.outer(v, v).astype(float)
Outer(v) == [i \in 1..Len(v) |-> [j \in 1..Len(v) |-> Frac(v[i] * v[j], 1)]]

ZeroMatrix(n) == [i \in 1..n |-> [j \in 1..n |-> Frac(0, 1)]]

-----------------------------------------------------------------------------
(* The lattice the network is built on (networks.Network and               *)
(* isingmodel.IsingCoupling): a zero weight matrix of nnodes x nnodes, a   *)
(* vector of nnodes spins in {-1, +1}, neighbour lists derived from the    *)
(* weight matrix, and a random-number stream used by the spin dynamics.    *)

\* Ising.update_neighbours: node i's neighbours are the nodes j it has a
\* non-zero weight to, in ascending order
update_neighbours(M) ==
    [i \in 1..Len(M) |->
        SelectSeq([j \in 1..Len(M) |-> j], LAMBDA j : M[i][j][1] # 0)]

SpinVectors(n) == [1..n -> {-1, 1}]

\* Network(nnodes, weighted=True) cannot allocate a matrix of negative size
NetworkRaises(nnodes) == nnodes < 0

-----------------------------------------------------------------------------
(* Hopfield.__init__ *)

NoArg == [shape |-> <<>>, data |-> <<>>]
NoValue == [nan |-> FALSE, num |-> 0, den |-> 1]
Call(op, arg, outcome, value) ==
    [op |-> op, arg |-> arg, outcome |-> outcome, value |-> value]

NoLocals == [pattern |-> NoArg, old |-> <<>>, k |-> 0, new |-> <<>>]

\* __init__ (hopfield.py:39-55) on the tuple shp, the seed giving the spins sp.
\* The method itself tests nothing about shp: nnodes is the product of its
\* entries, the store starts empty, and the rest is the lattice's
\* construction.
HopfieldInit(shp, sp) ==
    LET nnodes == Prod(shp)
    IN  [raised     |-> NetworkRaises(nnodes),
         shape      |-> shp,
         nspins     |-> nnodes,
         patterns   |-> <<>>,
         adjmatrix  |-> ZeroMatrix(nnodes),
         neighbours |-> update_neighbours(ZeroMatrix(nnodes)),
         spins      |-> sp]

\* the state after Hopfield(shape, seed) returned
Init ==
    \E shp \in NetShapes : \E sp \in SpinVectors(Prod(shp)) :
        LET o == HopfieldInit(shp, sp)
        IN  /\ alive = TRUE
            /\ shape = o.shape
            /\ nspins = o.nspins
            /\ adjmatrix = o.adjmatrix
            /\ neighbours = o.neighbours
            /\ patterns = o.patterns
            /\ spins = o.spins
            /\ rng = 0
            /\ last = Call("init", NoArg, "returned", NoValue)
            /\ learned = <<>>
            /\ pc = [t \in Threads |-> "idle"]
            /\ loc = [t \in Threads |-> NoLocals]
            /\ nwrites = 0
            /\ torn = FALSE

-----------------------------------------------------------------------------
(* Hopfield.learn_pattern_Hebb *)

\* hopfield.py:77-79: on a shape mismatch a ValueError is built and dropped;
\* there is no raise statement, so the test never stops the call
ShapeCheckRaises(pattern) == pattern.shape # shape /\ FALSE

\* np_average without the normalisation: the weighted sum
np_average_sum(A, B, wA, wB) ==
    IF Len(A) # Len(B) \/ wA + wB = 0
    THEN [raised |-> TRUE, value |-> <<>>]
    ELSE [raised |-> FALSE,
          value  |-> [i \in 1..Len(A) |-> [j \in 1..Len(A) |->
                        RatAdd(RatScale(A[i][j], wA), RatScale(B[i][j], wB))]]]

\* np.average([A, B], axis=0, weights=[wA, wB]) for square matrices A and B:
\* matrices of different sizes do not stack into one array (ValueError, as
\* NumPy raises for a ragged list since 1.24);
\* weights that sum to zero cannot be normalised (ZeroDivisionError);
\* otherwise the entries are (A*wA + B*wB) / (wA + wB)
np_average(A, B, wA, wB) ==
    IF Len(A) # Len(B) \/ wA + wB = 0
    THEN [raised |-> TRUE, value |-> <<>>]
    ELSE [raised |-> FALSE,
          value  |-> [i \in 1..Len(A) |-> [j \in 1..Len(A) |->
                        RatDiv(RatAdd(RatScale(A[i][j], wA),
                                      RatScale(B[i][j], wB)),
                               wA + wB)]]]

\* hopfield.py:81-87: the candidate matrix of a pattern
adjmatrix_change(pattern) == Outer(Bipolar(Flatten(pattern)))

\* HebbAverage with the weights left out: the plain mean of the two matrices
HebbAverage_unweighted(old, k, pattern) ==
    np_average(old, adjmatrix_change(pattern), 1, 1)

\* hopfield.py:88-90: the new weight matrix, from the matrix and the store
\* as they are read
HebbAverage(old, k, pattern) == np_average(old, adjmatrix_change(pattern), k, 1)

\* RefreshedNeighbours with the refresh placed before the matrix is written
RefreshedNeighbours_early(old, new) == update_neighbours(old)

\* StoreAppend storing pattern_flat in place of pattern
StoreAppend_flat(store, pattern) ==
    Append(store,
           [shape |-> <<Size(pattern)>>,
            data  |-> [ix \in { <<k>> : k \in 1..Size(pattern) } |->
                         Flatten(pattern)[ix[1]]]])

\* hopfield.py:92-93: the lists are rebuilt after the matrix has been written,
\* from the matrix as it is then
RefreshedNeighbours(old, new) == update_neighbours(new)

\* hopfield.py:95-96: the pattern is stored as it was given, at the end
StoreAppend(store, pattern) == Append(store, pattern)

npatterns == Len(patterns)

learn_pattern_Hebb(pattern) ==
    /\ alive
    /\ npatterns < MaxPatterns
    /\ LET avg == HebbAverage(adjmatrix, npatterns, pattern)
       IN  IF ShapeCheckRaises(pattern) \/ avg.raised
           THEN /\ last' = Call("learn", pattern, "raised", NoValue)
                /\ UNCHANGED <<adjmatrix, neighbours, patterns, learned, nwrites>>
           ELSE /\ adjmatrix' = avg.value
                /\ neighbours' = RefreshedNeighbours(adjmatrix, adjmatrix')
                /\ patterns' = StoreAppend(patterns, pattern)
                /\ learned' = Append(learned, pattern)
                /\ nwrites' = nwrites + 1
                /\ last' = Call("learn", pattern, "returned", NoValue)
    /\ UNCHANGED <<alive, shape, nspins, spins, rng, pc, loc, torn>>

-----------------------------------------------------------------------------
(* Hopfield.pattern_overlap *)

\* BipolarFloat without the map to -1/+1: False counts as 0
BipolarFloat_unit(flat) == [k \in 1..Len(flat) |-> IF flat[k] THEN 1 ELSE 0]

\* 2.*pattern.flatten() - 1.
BipolarFloat(flat) == [k \in 1..Len(flat) |-> 2 * (IF flat[k] THEN 1 ELSE 0) - 1]

\* v * w for 1-D arrays under NumPy broadcasting: equal lengths multiply
\* element by element, a length-1 array is stretched, anything else raises
BroadcastMul(v, w) ==
    CASE Len(v) = Len(w) ->
            [raised |-> FALSE, value |-> [i \in 1..Len(v) |-> v[i] * w[i]]]
      [] Len(v) # Len(w) /\ Len(v) = 1 ->
            [raised |-> FALSE, value |-> [i \in 1..Len(w) |-> v[1] * w[i]]]
      [] Len(v) # Len(w) /\ Len(v) # 1 /\ Len(w) = 1 ->
            [raised |-> FALSE, value |-> [i \in 1..Len(v) |-> v[i] * w[1]]]
      [] OTHER ->
            [raised |-> TRUE, value |-> <<>>]

RECURSIVE Sum(_)
Sum(v) == IF v = <<>> THEN 0 ELSE Head(v) + Sum(Tail(v))

\* x / n on NumPy floats: 0.0/0 is nan, otherwise the quotient
FloatDiv(x, n) ==
    IF n = 0
    THEN [nan |-> TRUE, num |-> 0, den |-> 1]
    ELSE [nan |-> FALSE, num |-> Frac(x, n)[1], den |-> Frac(x, n)[2]]

\* hopfield.py:110: the value returned, or raised
Overlap(pattern) ==
    LET prod == BroadcastMul(BipolarFloat(Flatten(pattern)), spins)
    IN  IF prod.raised
        THEN [raised |-> TRUE, value |-> NoValue]
        ELSE [raised |-> FALSE, value |-> FloatDiv(Sum(prod.value), nspins)]

\* pattern_overlap multiplying in place (self.spins *= ...): the product is
\* left in the lattice's spins
pattern_overlap_inplace(pattern) ==
    /\ alive
    /\ LET r == Overlap(pattern)
           prod == BroadcastMul(BipolarFloat(Flatten(pattern)), spins)
       IN  /\ last' = Call("overlap", pattern,
                           IF r.raised THEN "raised" ELSE "returned", r.value)
           /\ spins' = IF prod.raised \/ Len(prod.value) # Len(spins)
                       THEN spins ELSE prod.value
    /\ UNCHANGED <<alive, shape, nspins, adjmatrix, neighbours, patterns,
                   rng, learned, pc, loc, nwrites, torn>>

pattern_overlap(pattern) ==
    /\ alive
    /\ LET r == Overlap(pattern)
       IN  last' = Call("overlap", pattern,
                        IF r.raised THEN "raised" ELSE "returned", r.value)
    /\ UNCHANGED <<alive, shape, nspins, adjmatrix, neighbours, patterns, spins,
                   rng, learned, pc, loc, nwrites, torn>>

-----------------------------------------------------------------------------
(* The lattice's own dynamics: a step draws from the random-number stream  *)
(* and may flip one spin.                                                  *)

evolve(i) ==
    /\ alive
    /\ rng < MaxDraws
    /\ rng' = rng + 1
    /\ spins' = [spins EXCEPT ![i] = -spins[i]]
    /\ last' = Call("evolve", NoArg, "returned", NoValue)
    /\ UNCHANGED <<alive, shape, nspins, adjmatrix, neighbours, patterns,
                   learned, pc, loc, nwrites, torn>>

-----------------------------------------------------------------------------
Next ==
    \/ \E p \in Pool : learn_pattern_Hebb(p)
    \/ \E p \in Pool : pattern_overlap(p)
    \/ \E i \in 1..nspins : evolve(i)

Spec == Init /\ [][Next]_vars

-----------------------------------------------------------------------------
(* Construction from any argument.  Before the call there is no object.    *)

InitC ==
    /\ alive = FALSE
    /\ shape = <<>>
    /\ nspins = 0
    /\ adjmatrix = <<>>
    /\ neighbours = <<>>
    /\ patterns = <<>>
    /\ spins = <<>>
    /\ rng = 0
    /\ last = Call("none", NoArg, "returned", NoValue)
    /\ learned = <<>>
    /\ pc = [t \in Threads |-> "idle"]
    /\ loc = [t \in Threads |-> NoLocals]
    /\ nwrites = 0
    /\ torn = FALSE

\* hopfield.py:40-43: tuple(shape) of a tuple is the tuple; a bare integer is
\* not iterable (TypeError) and becomes the 1-tuple holding it
ShapeOfInt(n) == <<n>>

\* Hopfield(shp): the call returns the object, or an exception leaves none
Construct(shp) ==
    /\ last.op = "none"
    /\ shape' = shp
    /\ \E sp \in SpinVectors(Prod(shp)) :
        LET o == HopfieldInit(shp, sp)
        IN  IF o.raised
            THEN /\ last' = Call("init", NoArg, "raised", NoValue)
                 /\ UNCHANGED <<alive, nspins, adjmatrix, neighbours, patterns,
                                spins>>
            ELSE /\ alive' = TRUE
                 /\ nspins' = o.nspins
                 /\ adjmatrix' = o.adjmatrix
                 /\ neighbours' = o.neighbours
                 /\ patterns' = o.patterns
                 /\ spins' = o.spins
                 /\ last' = Call("init", NoArg, "returned", NoValue)
    /\ UNCHANGED <<rng, learned, pc, loc, nwrites, torn>>

NextC ==
    \/ \E shp \in TupleArgs : Construct(shp)
    \/ \E n \in IntArgs : Construct(ShapeOfInt(n))
    \/ Next

SpecConstruct == InitC /\ [][NextC]_vars

-----------------------------------------------------------------------------
(* learn_pattern_Hebb called from several threads on one object.  The      *)
(* method takes no lock, so between any two of its reads and writes of the *)
(* object another thread may run.                                          *)

Busy == { u \in Threads : pc[u] # "idle" }

\* hopfield.py:77-87: the shape test and the candidate matrix use only the
\* argument
T_Call(t, pattern) ==
    /\ alive
    /\ pc[t] = "idle"
    /\ npatterns + Cardinality(Busy) < MaxPatterns
    /\ IF ShapeCheckRaises(pattern)
       THEN /\ last' = Call("learn", pattern, "raised", NoValue)
            /\ UNCHANGED <<pc, loc>>
       ELSE /\ pc' = [pc EXCEPT ![t] = "readA"]
            /\ loc' = [loc EXCEPT ![t] = [NoLocals EXCEPT !.pattern = pattern]]
            /\ UNCHANGED last
    /\ UNCHANGED <<alive, shape, nspins, adjmatrix, neighbours, patterns, spins,
                   rng, learned, nwrites, torn>>

\* hopfield.py:89: self.network.adjmatrix is read
T_ReadMatrix(t) ==
    /\ pc[t] = "readA"
    /\ loc' = [loc EXCEPT ![t].old = adjmatrix]
    /\ torn' = (torn \/ neighbours # update_neighbours(adjmatrix))
    /\ pc' = [pc EXCEPT ![t] = "readK"]
    /\ UNCHANGED <<alive, shape, nspins, adjmatrix, neighbours, patterns, spins,
                   rng, last, learned, nwrites>>

\* hopfield.py:90, 88: self.npatterns is read and the average computed
T_ReadCount(t) ==
    /\ pc[t] = "readK"
    /\ torn' = (torn \/ npatterns # nwrites)
    /\ LET avg == HebbAverage(loc[t].old, npatterns, loc[t].pattern)
       IN  IF avg.raised
           THEN /\ last' = Call("learn", loc[t].pattern, "raised", NoValue)
                /\ pc' = [pc EXCEPT ![t] = "idle"]
                /\ loc' = [loc EXCEPT ![t] = NoLocals]
           ELSE /\ loc' = [loc EXCEPT ![t].k = npatterns, ![t].new = avg.value]
                /\ pc' = [pc EXCEPT ![t] = "write"]
                /\ UNCHANGED last
    /\ UNCHANGED <<alive, shape, nspins, adjmatrix, neighbours, patterns, spins,
                   rng, learned, nwrites>>

\* hopfield.py:88: self.network.adjmatrix is assigned
T_Write(t) ==
    /\ pc[t] = "write"
    /\ adjmatrix' = loc[t].new
    /\ nwrites' = nwrites + 1
    /\ pc' = [pc EXCEPT ![t] = "refresh"]
    /\ UNCHANGED <<alive, shape, nspins, neighbours, patterns, spins, rng, last,
                   learned, loc, torn>>

\* hopfield.py:93
T_Refresh(t) ==
    /\ pc[t] = "refresh"
    /\ neighbours' = update_neighbours(adjmatrix)
    /\ pc' = [pc EXCEPT ![t] = "append"]
    /\ UNCHANGED <<alive, shape, nspins, adjmatrix, patterns, spins, rng, last,
                   learned, loc, nwrites, torn>>

\* hopfield.py:96, and the return
T_Append(t) ==
    /\ pc[t] = "append"
    /\ patterns' = StoreAppend(patterns, loc[t].pattern)
    /\ learned' = Append(learned, loc[t].pattern)
    /\ last' = Call("learn", loc[t].pattern, "returned", NoValue)
    /\ pc' = [pc EXCEPT ![t] = "idle"]
    /\ loc' = [loc EXCEPT ![t] = NoLocals]
    /\ UNCHANGED <<alive, shape, nspins, adjmatrix, neighbours, spins, rng,
                   nwrites, torn>>

\* the threads pass patterns of the network's shape
NextConc ==
    \/ \E t \in Threads : \E p \in BoolArrays(shape) : T_Call(t, p)
    \/ \E t \in Threads : T_ReadMatrix(t)
    \/ \E t \in Threads : T_ReadCount(t)
    \/ \E t \in Threads : T_Write(t)
    \/ \E t \in Threads : T_Refresh(t)
    \/ \E t \in Threads : T_Append(t)
    \/ \E p \in BoolArrays(shape) : pattern_overlap(p)

SpecConc == Init /\ [][NextConc]_vars

-----------------------------------------------------------------------------
(* Properties *)

\* the bipolar form of a pattern, flattened: True is +1, False is -1
BipolarForm(p) == [k \in 1..Size(p) |-> IF Flatten(p)[k] THEN 1 ELSE -1]

RECURSIVE ProductSum(_, _, _)
ProductSum(pats, r, c) ==
    IF pats = <<>> THEN 0
    ELSE BipolarForm(Head(pats))[r] * BipolarForm(Head(pats))[c]
         + ProductSum(Tail(pats), r, c)

\* (1/k) * sum of outer(b_i, b_i) over the k patterns; the zero matrix for k = 0
DirectAverage(pats, n) ==
    [r \in 1..n |-> [c \in 1..n |->
        IF pats = <<>> THEN <<0, 1>>
        ELSE Frac(ProductSum(pats, r, c), Len(pats))]]

Complement(p) == [p EXCEPT !.data = [ix \in DOMAIN p.data |-> ~p.data[ix]]]

\* number of nodes where the pattern's bipolar form and the spins agree
Agreements(p) == Cardinality({ k \in 1..nspins : BipolarForm(p)[k] = spins[k] })

ValidShape(s) == s # <<>> /\ \A i \in 1..Len(s) : s[i] > 0

\* C1: after k >= 0 learn calls that returned, the weight matrix is (1/k) times
\* the sum of the outer products of the bipolar forms of the k learnt patterns:
\* the zero matrix for k = 0, the candidate matrix itself after the first call.
C1_RunningAverage ==
    alive => adjmatrix = DirectAverage(learned, nspins)

\* C1 witness: two different patterns have been learnt and some weight has
\* averaged out to zero
C1_Witness ==
    /\ Len(learned) = 2
    /\ learned[1] # learned[2]
    /\ \E i, j \in 1..nspins : adjmatrix[i][j] = <<0, 1>>

\* C2 (as claimed): a learn call with a pattern whose shape is not the
\* network's raises, and so the store never holds a pattern of another shape.
C2_MismatchedLearnRaises ==
    /\ (last.op = "learn" /\ last.arg.shape # shape) => last.outcome = "raised"
    /\ \A i \in 1..Len(patterns) : patterns[i].shape = shape

\* C3 (as claimed): an overlap call with a pattern whose shape is not the
\* network's raises; it returns no number.
C3_MismatchedOverlapRaises ==
    (last.op = "overlap" /\ last.arg.shape # shape) => last.outcome = "raised"

\* C4: for a pattern of the network's shape pattern_overlap returns
\* (sum_i bipolar_i * spin_i) / nnodes, which is (agreements - disagreements)
\* / nnodes; it lies in [-1, 1], is +1 exactly when the spins are the bipolar
\* pattern and -1 exactly when they are its negation.
C4_Overlap ==
    (last.op = "overlap" /\ last.arg.shape = shape) =>
        LET v == last.value
            b == BipolarForm(last.arg)
        IN  /\ last.outcome = "returned"
            /\ ~v.nan
            /\ <<v.num, v.den>> = Frac(2 * Agreements(last.arg) - nspins, nspins)
            /\ -v.den <= v.num /\ v.num <= v.den
            /\ (v.num = v.den) <=> (\A k \in 1..nspins : spins[k] = b[k])
            /\ (v.num = -v.den) <=> (\A k \in 1..nspins : spins[k] = -b[k])

\* C4 witness: an overlap of -1 was returned for a 2-D pattern after the
\* lattice moved
C4_Witness ==
    /\ last.op = "overlap"
    /\ last.arg.shape = shape
    /\ Len(shape) = 2
    /\ last.value.num = -last.value.den
    /\ rng > 0

\* C5: the store is the list of the patterns of the learn calls that returned,
\* as they were given and in call order; so npatterns is their number.
C5_PatternStore ==
    /\ patterns = learned
    /\ npatterns = Len(learned)

\* C5 witness: two different patterns are stored, the second a 2-D array
C5_Witness ==
    /\ alive
    /\ Len(patterns) = 2
    /\ patterns[1] # patterns[2]
    /\ Len(patterns[2].shape) = 2

\* C6 (as claimed): construction yields an object only for a non-empty tuple
\* of positive integers.
C6_BadShapeRejected ==
    alive => ValidShape(shape)

\* C7: a pattern_overlap call changes nothing of the object (weights,
\* neighbour lists, store, spins, random stream), and a learn_pattern_Hebb
\* call leaves the spins and the random stream as they were.
C7_Frame ==
    [][ /\ last'.op = "overlap" =>
              UNCHANGED <<alive, shape, nspins, adjmatrix, neighbours, patterns,
                          spins, rng>>
        /\ last'.op = "learn" => UNCHANGED <<spins, rng>> ]_vars

\* C7 witness: an overlap call has returned on a network that has learnt a
\* pattern and whose lattice has moved
C7_Witness ==
    /\ last.op = "overlap"
    /\ last.outcome = "returned"
    /\ npatterns >= 1
    /\ rng >= 1

\* C8: between calls the neighbour lists are the ones derived from the
\* current weight matrix.
C8_NeighboursFresh ==
    alive => neighbours = update_neighbours(adjmatrix)

\* C8 witness: a learn call returned and left a node with some, not all,
\* nodes as neighbours
C8_Witness ==
    /\ last.op = "learn"
    /\ last.outcome = "returned"
    /\ \E i \in 1..nspins : Len(neighbours[i]) > 0 /\ Len(neighbours[i]) < nspins

\* C9 (as claimed): with learn calls running concurrently no call reads a
\* matrix whose neighbour lists are stale or a store length that differs from
\* the number of patterns written into the matrix, and once the calls have
\* returned the matrix is the running average over all stored patterns.
C9_LearnIsAtomic ==
    /\ ~torn
    /\ (Busy = {} /\ \A i \in 1..Len(patterns) : Size(patterns[i]) = nspins)
          => adjmatrix = DirectAverage(patterns, nspins)

\* C10: while every learnt pattern has the bipolar form of the first one or
\* of its complement, the
\* weight matrix stays the outer product of the first one's bipolar form, and
\* each call still adds one pattern to the store.
C10_Relearn ==
    (/\ alive
     /\ Len(learned) >= 1
     /\ \A i \in 1..Len(learned) :
            BipolarForm(learned[i]) \in { BipolarForm(learned[1]),
                                          BipolarForm(Complement(learned[1])) })
    => /\ adjmatrix = [r \in 1..nspins |-> [c \in 1..nspins |->
                         << BipolarForm(learned[1])[r] * BipolarForm(learned[1])[c],
                            1 >>]]
       /\ npatterns = Len(learned)

\* C10 witness: a pattern and then its complement have been learnt
C10_Witness ==
    /\ Len(learned) = 2
    /\ learned[2] = Complement(learned[1])
    /\ last.op = "learn"
    /\ last.outcome = "returned"

====
